---- MODULE Spec2Model ----
(***************************************************************************)
(* Plan executor of the workflow runner (package runner): the stage        *)
(* pipeline of runnerImpl.NewPlanExecutor, the failure aggregator           *)
(* handleFailure and the matrix filter selectMatrixes.                      *)
(*                                                                          *)
(* The executor combinators (common.NewParallelExecutor,                    *)
(* common.NewPipelineExecutor, Executor.Then), the job executor             *)
(* (RunContext.Executor), Job.GetMatrixes and container.GetHostInfo live    *)
(* in other packages; they follow the specification (sections 4.A, 4.B,     *)
(* 4.E, 4.G, 5 and 7).                                                      *)
(***************************************************************************)
EXTENDS Integers, Sequences, FiniteSets, TLC

VARIABLES
    plan,           \* plan[r]: the Job of Run r (Strategy, result of GetMatrixes)
    cfgMatrix,      \* runner.config.Matrix, the user filter
    pc,             \* position of the plan executor
    stage,          \* index of the stage the pipeline is at
    ctxDone,        \* the caller's context has been cancelled
    ncpu,           \* ncpu[s]: the fan-out the stage executor computed (0: not yet)
    probed,         \* probed[s]: what GetHostInfo returned in stage s
    stageSt,        \* stageSt[s]: state of the executor of stage s
    matrixes,       \* matrixes[r]: the matrix points kept for Run r
    maxParallel,    \* maxParallel[r]: the fan-out cap handed to the Run's Parallel
    rcs,            \* rcs[r]: the RunContexts built for Run r, one per matrix point
    rcBuilt,        \* rcBuilt[r]: the calls of newRunContext made for Run r
    execs,          \* execs[r][i]: the executor appended for matrix point i of Run r
    maxJobNameLen,  \* the captured padding width
    runSt,          \* runSt[r]: state of the Run's Parallel executor
    runErr,         \* runErr[r]: what the Run's Parallel executor returned
    pt,             \* pt[r][i]: state of the job executor of matrix point i of Run r
    result,         \* result[r]: run.Job().Result
    stageErr,       \* stageErr[s]: what the stage executor returned
    pipeErr,        \* what the stage sequence returned
    ret,            \* what the plan executor returned
    aggRan,         \* handleFailure has been invoked
    selM,           \* selectMatrixes: originalMatrixes
    selF,           \* selectMatrixes: targetMatrixValues
    selOut,         \* selectMatrixes(selM, selF)
    selAll,         \* selectMatrixes(selM, empty filter)
    selPc,          \* position of the selectMatrixes driver
    config,         \* the Config the runner is constructed with (runner.config)
    eventFile,      \* the file at config.EventPath
    runner,         \* what New returned: the runner and its eventJSON, or the error
    cfgRcs,         \* the RunContexts newRunContext built for this runner
    token,          \* <<config.GetToken()>> once it has been called
    netMode,        \* <<the network mode predicates that hold of config>> once asked
    cfgPc,          \* position of the runner's construction
    mkPoints,       \* the number of matrix points of the Run whose masks are followed
    rcMasks,        \* rcMasks[i]: Masks of the RunContext of matrix point i
    logMasks,       \* logMasks[i]: the RunContext whose Masks the job logger of point i was given (0: none yet)
    mkAdded,        \* mkAdded[i]: the strings matrix point i has asked to mask
    mkPt,           \* mkPt[i]: state of the job executor of matrix point i
    netArgs,        \* NewDockerNetworkCreateExecutor: name and inheritDriverOpts
    docker,         \* the docker daemon: the default bridge, the networks created, the calls made
    createOpts,     \* createOpts.Options
    netRet,         \* what the network create executor returned
    netPc           \* position of the network create executor

vars == <<plan, cfgMatrix, pc, stage, ctxDone, ncpu, probed, stageSt, matrixes,
          maxParallel, rcs, rcBuilt, execs,
                   maxJobNameLen, runSt, runErr, pt, result,
          stageErr, pipeErr, ret, aggRan, selM, selF, selOut, selAll, selPc,
          config, eventFile, runner, cfgRcs, token, netMode, cfgPc,
          mkPoints, rcMasks, logMasks, mkAdded, mkPt,
          netArgs, docker, createOpts, netRet, netPc>>

schedVars == <<plan, cfgMatrix, pc, stage, ctxDone, ncpu, probed, stageSt, matrixes,
               maxParallel, rcs, rcBuilt, execs,
                   maxJobNameLen, runSt, runErr, pt, result,
               stageErr, pipeErr, ret, aggRan>>

selVars == <<selM, selF, selOut, selAll, selPc>>

cfgVars == <<config, eventFile, runner, cfgRcs, token, netMode, cfgPc>>

maskVars == <<mkPoints, rcMasks, logMasks, mkAdded, mkPt>>

netVars == <<netArgs, docker, createOpts, netRet, netPc>>

auxVars == <<cfgVars, maskVars, netVars>>

(***************************************************************************)
(* Bounds of the model.                                                    *)
(***************************************************************************)
MaxPoints == 3      \* most matrix points Job.GetMatrixes yields for a Run
MaxMP     == 2      \* largest Strategy.MaxParallel of a plan
MaxNCPU   == 2      \* largest NCPU the host probe reports
MaxSelLen == 3      \* longest originalMatrixes given to selectMatrixes
MaxInputs == 2      \* most keys of Config.Inputs
MaxModeParts == 3   \* most parts a ContainerNetworkMode is made of
MaxRcs    == 2      \* most RunContexts built for one runner
MaxMaskPoints == 3  \* most matrix points of the Run whose masks are followed
MaxInherit == 2     \* most keys in inheritDriverOpts

(***************************************************************************)
(* Values.  A matrix value is a string, a number or a boolean; a matrix    *)
(* point and a filter are Go maps, modelled as functions whose DOMAIN is   *)
(* the set of keys present.                                                 *)
(***************************************************************************)
StrVal(s)  == [t |-> "str",  s |-> s,  i |-> 0, b |-> FALSE]
IntVal(i)  == [t |-> "int",  s |-> "", i |-> i, b |-> FALSE]
BoolVal(b) == [t |-> "bool", s |-> "", i |-> 0, b |-> b]

EmptyMap == [k \in {} |-> 0]

\* fmt.Sprintf("%v", val) for the scalar kinds a matrix value can have
FormatV(val) ==
    CASE val.t = "str"  -> val.s
      [] val.t = "int"  -> ToString(val.i)
      [] val.t = "bool" -> IF val.b THEN "true" ELSE "false"

\* a filter check that reads the stored boolean instead of the presence of
\* the key
selectFlagStoredValue(original, targetMatrixValues) ==
    \A key \in DOMAIN original :
        key \in DOMAIN targetMatrixValues
            => /\ FormatV(original[key]) \in DOMAIN targetMatrixValues[key]
               /\ targetMatrixValues[key][FormatV(original[key])]

\* The point's verdict of the inner loop of selectMatrixes: flag stays true
\* unless some key of the point is a key of the filter whose allowed map has
\* no entry for the formatted value.
selectFlag(original, targetMatrixValues) ==
    \A key \in DOMAIN original :
        key \in DOMAIN targetMatrixValues
            => FormatV(original[key]) \in DOMAIN targetMatrixValues[key]

\* a filter that puts each kept point in front of the ones kept before it
RECURSIVE selectMatrixesPrepend(_, _)
selectMatrixesPrepend(originalMatrixes, targetMatrixValues) ==
    IF originalMatrixes = <<>> THEN <<>>
    ELSE LET n    == Len(originalMatrixes)
             rest == selectMatrixesPrepend(SubSeq(originalMatrixes, 1, n - 1),
                                           targetMatrixValues)
         IN  IF selectFlag(originalMatrixes[n], targetMatrixValues)
             THEN <<originalMatrixes[n]>> \o rest
             ELSE rest

RECURSIVE selectMatrixes(_, _)
selectMatrixes(originalMatrixes, targetMatrixValues) ==
    IF originalMatrixes = <<>> THEN <<>>
    ELSE LET n    == Len(originalMatrixes)
             rest == selectMatrixes(SubSeq(originalMatrixes, 1, n - 1),
                                    targetMatrixValues)
         IN  IF selectFlag(originalMatrixes[n], targetMatrixValues)
             THEN Append(rest, originalMatrixes[n])
             ELSE rest

(***************************************************************************)
(* The plan.  Stages[s] lists the Runs of stage s in plan order.           *)
(***************************************************************************)
Stages    == << <<1, 2>>, <<3>> >>
NumStages == Len(Stages)
Runs      == UNION {{Stages[s][i] : i \in 1..Len(Stages[s])} : s \in 1..NumStages}
RunsOf(s) == {Stages[s][i] : i \in 1..Len(Stages[s])}
StageOf(r) == CHOOSE s \in 1..NumStages : r \in RunsOf(s)
JobNames  == <<"build", "test", "deploy">>

OsValues  == <<"a", "b", "c", "d", "e">>
OsPoint(v) == [k \in {"os"} |-> StrVal(v)]
OsMatrix(n) == [i \in 1..n |-> OsPoint(OsValues[i])]

NoStrategy == [present |-> FALSE, MaxParallel |-> 0, FailFast |-> FALSE]
Strategy(m, f) == [present |-> TRUE, MaxParallel |-> m, FailFast |-> f]

\* Job.GetMatrixes: the expanded matrix of the job, or an error.  A job
\* without a matrix yields the one synthetic point with no bindings.
GetMatrixes(job) == [err |-> job.MatrixErr, m |-> job.Matrix]

Job(strategy, matrix, err) ==
    [Strategy |-> strategy, Matrix |-> matrix, MatrixErr |-> err]

PlainJob == Job(NoStrategy, <<EmptyMap>>, FALSE)

\* every strategy and matrix size
MatrixJobs ==
    {Job(Strategy(m, f), OsMatrix(n), FALSE) :
        m \in -1..MaxMP, f \in BOOLEAN, n \in 1..MaxPoints}

\* a job without strategy, two jobs of two matrix points and a job whose
\* matrix cannot be expanded
SiblingJobs ==
    {PlainJob,
     Job(Strategy(MaxMP, FALSE), OsMatrix(2), FALSE),
     Job(Strategy(0, TRUE), OsMatrix(2), FALSE),
     Job(Strategy(1, FALSE), OsMatrix(1), TRUE)}

LaterJobs == {PlainJob, Job(Strategy(1, TRUE), OsMatrix(2), FALSE)}

\* the plans: any job next to plain jobs, and the sibling jobs next to each
\* other
Plans ==
    {<<j1, PlainJob, PlainJob>> : j1 \in MatrixJobs} \cup
    {<<j1, j2, j3>> : j1 \in SiblingJobs, j2 \in SiblingJobs, j3 \in LaterJobs}

\* runner.config.Matrix: no filter, a filter keeping "a" and "c" (the entry
\* of "c" stores false), a filter keeping nothing
Filters ==
    {EmptyMap,
     [k \in {"os"} |-> [v \in {"a", "c"} |-> v = "a"]],
     [k \in {"os"} |-> [v \in {"z"} |-> TRUE]]}

(***************************************************************************)
(* Errors an executor returns.                                             *)
(***************************************************************************)
Nil        == [kind |-> "nil",      run |-> 0]
Canceled   == [kind |-> "canceled", run |-> 0]   \* ctx.Err()
JobErr(r)  == [kind |-> "job",      run |-> r]   \* returned by a job executor
Failed(r)  == [kind |-> "failed",   run |-> r]   \* "Job '%s' failed"

Min(S) == CHOOSE x \in S : \A y \in S : x <= y
Max(S) == CHOOSE x \in S : \A y \in S : x >= y

(***************************************************************************)
(* Executor algebra (specification 4.A).                                   *)
(***************************************************************************)
\* Parallel(k, ...): the size of the semaphore
ParallelCap(k) == IF k <= 0 THEN 1 ELSE k

\* Parallel(k, ...): the failure it holds after a child returned err
ParallelCollect(firstErr, err) == IF firstErr = Nil THEN err ELSE firstErr

\* Parallel(k, ...): what it returns once every child it spawned has
\* finished: the cancellation when the context is cancelled, else the first
\* failure a child returned, else success
ParallelResult(firstErr, cancelled) ==
    IF cancelled THEN Canceled ELSE firstErr

\* e.Then(next): next runs whatever e returned; its failure is the result,
\* otherwise the result of e is kept
Then(prior, next) == IF next # Nil THEN next ELSE prior

\* Pipeline: the stage sequence goes on after stage s returned err
PipelineContinues(s, err) == err = Nil /\ s < NumStages

(***************************************************************************)
(* The stage executor (NewPlanExecutor, the closure of each stage).        *)
(***************************************************************************)
DefaultMaxParallel == 4

\* matrixes that fall back to the one point without bindings whenever the
\* filter leaves nothing
StageMatrixesSynthetic(r) ==
    LET got  == GetMatrixes(plan[r])
        kept == IF got.err THEN <<>> ELSE selectMatrixes(got.m, cfgMatrix)
    IN  IF ~got.err /\ kept = <<>> THEN <<EmptyMap>> ELSE kept

\* matrixes: nil when GetMatrixes fails, else the points the user filter keeps
StageMatrixes(r) ==
    LET got == GetMatrixes(plan[r])
    IN  IF got.err THEN <<>> ELSE selectMatrixes(got.m, cfgMatrix)

\* maxParallel that never reads the job's strategy
StageMaxParallelNoStrategy(r, n) ==
    IF n < DefaultMaxParallel THEN n ELSE DefaultMaxParallel

\* maxParallel that takes a strategy's MaxParallel of zero or less as no cap
StageMaxParallelUncapped(r, n) ==
    LET mp == IF plan[r].Strategy.present
              THEN plan[r].Strategy.MaxParallel
              ELSE DefaultMaxParallel
    IN  IF mp <= 0 \/ n < mp THEN n ELSE mp

\* maxParallel of a Run whose kept matrix has n points
StageMaxParallel(r, n) ==
    LET mp == IF plan[r].Strategy.present
              THEN plan[r].Strategy.MaxParallel
              ELSE DefaultMaxParallel
    IN  IF n < mp THEN n ELSE mp

\* run.String() under the expression evaluator: the names of the plan hold
\* no expression, so interpolation leaves them as they are
Interpolate(s) == s

newRunContext(r, matrix) ==
    [Run |-> r, Matrix |-> matrix, Name |-> Interpolate(JobNames[r]),
     JobName |-> ""]

\* a RunContext whose suffix is the 0-based index of the loop
BuildRunContextZeroBased(r, i, n, matrix) ==
    LET rc  == newRunContext(r, matrix)
        rcj == [rc EXCEPT !.JobName = rc.Name]
    IN  IF n > 1
        THEN [rcj EXCEPT !.Name = rc.Name \o "-" \o ToString(i - 1)]
        ELSE rcj

\* the RunContext of matrix point i (1-based) of n
BuildRunContext(r, i, n, matrix) ==
    LET rc  == newRunContext(r, matrix)
        rcj == [rc EXCEPT !.JobName = rc.Name]
    IN  IF n > 1
        THEN [rcj EXCEPT !.Name = rc.Name \o "-" \o ToString(i)]
        ELSE rcj

\* rc.String(): the formatted name of a RunContext
RcString(rc) == rc.Name

StageRunContexts(r) ==
    LET ms == StageMatrixes(r)
    IN  [i \in 1..Len(ms) |-> BuildRunContext(r, i, Len(ms), ms[i])]

\* the RunContext the stage builds to evaluate the strategy's matrix, when
\* the job has a strategy
StageStrategyRc(r) == IF plan[r].Strategy.present THEN 1 ELSE 0

\* the calls of newRunContext the stage makes for Run r: the one for the
\* strategy and one per kept matrix point
StageBuilt(r) == StageStrategyRc(r) + Len(StageMatrixes(r))

\* executors whose closures all hold the variables of the last iteration of
\* the loop
StageExecutorsLastIteration(r) ==
    LET ms == StageMatrixes(r)
    IN  [i \in 1..Len(ms) |->
            [rc |-> Len(ms), matrix |-> ms[Len(ms)], calls |-> 0]]

\* the executors the stage appends for Run r: the closure of matrix point i
\* holds the RunContext and the matrix of its own iteration
StageExecutors(r) ==
    LET ms == StageMatrixes(r)
    IN  [i \in 1..Len(ms) |-> [rc |-> i, matrix |-> ms[i], calls |-> 0]]

\* maxJobNameLen after the RunContexts of stage s have been built
StageNameLen(s, before) ==
    Max({before} \cup
        UNION {{Len(RcString(StageRunContexts(r)[i])) :
                   i \in DOMAIN StageRunContexts(r)} : r \in RunsOf(s)})

\* a stage that appends to its pipeline after the loop over its Runs: only
\* the last Run is in it
StagePipelineLastOnly(s) == {Stages[s][Len(Stages[s])]}

\* the Runs whose Parallel executor the stage appends to its pipeline
StagePipeline(s) == RunsOf(s)

\* GetHostInfo: an error, or the host's NCPU (at least one)
ProbeResults ==
    {[err |-> TRUE, NCPU |-> 0]} \cup
    {[err |-> FALSE, NCPU |-> n] : n \in 1..MaxNCPU}

\* ncpu that falls back to the default fan-out when the probe fails
StageNCPUDefaultFanOut(probe) ==
    IF probe.err THEN DefaultMaxParallel ELSE probe.NCPU

\* ncpu of the stage
StageNCPU(probe) == IF probe.err THEN 1 ELSE probe.NCPU

\* a stage executor that drops the result of the Parallel over its Runs
StageReturnDropped(err) == Nil

\* what the stage executor returns: the result of the Parallel over its Runs
StageReturn(err) == err

\* a stage executor that starts the Parallel over its Runs and returns
\* without waiting for it
StageWaitDetached(s) == TRUE

\* the stage executor calls the Parallel over its Runs and returns when it
\* has returned: no Run is executing, and every Run has returned unless the
\* cancelled context keeps the Parallel from starting the rest
StageWait(s) ==
    /\ {r \in RunsOf(s) : runSt[r] = "running"} = {}
    /\ (\A r \in StagePipeline(s) : runSt[r] = "returned") \/ ctxDone

(***************************************************************************)
(* The job executor of one matrix point (specification 4.E, 5 and 7): it   *)
(* succeeds, is skipped by the job's guard, fails, or returns the           *)
(* cancellation it observed.  A failure of one matrix point stays the       *)
(* Result of the Run.                                                       *)
(***************************************************************************)
JobOutcomes(cancelled) ==
    IF cancelled THEN {"cancelled", "failure"}
    ELSE {"success", "skipped", "failure"}

JobResult(old, outcome) ==
    CASE outcome = "failure"   -> "failure"
      [] outcome = "cancelled" -> old
      [] OTHER                 -> IF old = "failure" THEN old ELSE outcome

JobReturn(r, outcome) ==
    CASE outcome = "failure"   -> JobErr(r)
      [] outcome = "cancelled" -> Canceled
      [] OTHER                 -> Nil

RunningPoints(r) == {i \in DOMAIN pt[r] : pt[r][i] = "running"}
PendingPoints(r) == {i \in DOMAIN pt[r] : pt[r][i] = "pending"}
RunningRuns(s)   == {r \in RunsOf(s) : runSt[r] = "running"}

(***************************************************************************)
(* The failure aggregator.                                                 *)
(***************************************************************************)
PlanOrder == Stages[1] \o Stages[2]

\* an aggregator that reports every Run whose Result is not "success"
handleFailureNotSuccess ==
    LET failing == {i \in 1..Len(PlanOrder) : result[PlanOrder[i]] # "success"}
    IN  IF failing = {} THEN Nil ELSE Failed(PlanOrder[Min(failing)])

\* an aggregator that keeps walking the plan and reports the last failed Run
handleFailureLast ==
    LET failing == {i \in 1..Len(PlanOrder) : result[PlanOrder[i]] = "failure"}
    IN  IF failing = {} THEN Nil ELSE Failed(PlanOrder[Max(failing)])

handleFailure ==
    LET failing == {i \in 1..Len(PlanOrder) : result[PlanOrder[i]] = "failure"}
    IN  IF failing = {} THEN Nil ELSE Failed(PlanOrder[Min(failing)])

(***************************************************************************)
(* The runner's Config and its construction (Config, New, configure).      *)
(***************************************************************************)
\* a Go map read: the zero value when the key is absent
Lookup(m, k) == IF k \in DOMAIN m THEN m[k] ELSE ""

Config(eventJSON, eventPath, inputs, secrets, mode) ==
    [EventJSON |-> eventJSON, EventPath |-> eventPath, Inputs |-> inputs,
     Secrets |-> secrets, ContainerNetworkMode |-> mode]

DefaultConfig == Config("", "", EmptyMap, EmptyMap, "")

\* the file at EventPath: os.ReadFile fails on it, or returns its data
NoFile     == [readable |-> FALSE, data |-> ""]
File(data) == [readable |-> TRUE, data |-> data]
EventFiles == {NoFile, File(""), File("{\"f\":1}")}

EventJSONs == {"", "{\"ref\":\"r\"}"}
EventPaths == {"", "event.json"}

\* Config.Inputs: the maps over the first MaxInputs keys
InputKeys == <<"a", "b", "c", "d">>
InputMaps ==
    UNION {[K -> {"1", "x"}] : K \in SUBSET {InputKeys[i] : i \in 1..MaxInputs}}

\* Config.Secrets: each of the two tokens absent, empty or set
TokenValues == {"", "t1", "t2"}
SecretMaps ==
    UNION {[K -> TokenValues] : K \in SUBSET {"GITHUB_TOKEN", "GITEA_TOKEN"}}

\* Config.ContainerNetworkMode: the strings made of at most n of these parts
ModeTokens == {"host", "none", "bridge", "container", ":", "id"}
RECURSIVE ModeStrings(_)
ModeStrings(n) ==
    IF n = 0 THEN {""}
    ELSE LET shorter == ModeStrings(n - 1)
         IN  shorter \cup {p \o tok : p \in shorter, tok \in ModeTokens}

\* the Configs a runner is constructed with
Configs ==
    {Config(e, p, i, EmptyMap, "") :
        e \in EventJSONs, p \in EventPaths, i \in InputMaps} \cup
    {Config("", "", EmptyMap, s, "") : s \in SecretMaps} \cup
    {Config("", "", EmptyMap, EmptyMap, m) : m \in ModeStrings(MaxModeParts)}

\* json.Marshal of a string without characters to escape
Quote(s) == "\"" \o s \o "\""

\* json.Marshal of a map[string]string writes the entries in the order of
\* their keys; the entries of the keys among the first n of InputKeys
RECURSIVE MarshalEntries(_, _)
MarshalEntries(inputs, n) ==
    IF n = 0 THEN ""
    ELSE LET rest == MarshalEntries(inputs, n - 1)
             key  == InputKeys[n]
         IN  IF key \notin DOMAIN inputs THEN rest
             ELSE (IF rest = "" THEN "" ELSE rest \o ",")
                  \o Quote(key) \o ":" \o Quote(inputs[key])

\* json.Marshal(map[string]map[string]string{"inputs": inputs})
MarshalEvent(inputs) ==
    "{\"inputs\":{" \o MarshalEntries(inputs, Len(InputKeys)) \o "}}"

\* what New returns: the runner (built) with its eventJSON, or nil and the
\* error; reads counts the calls of os.ReadFile
NoRunner == [built |-> FALSE, eventJSON |-> "", err |-> FALSE, reads |-> 0]
Runner(eventJSON, reads) ==
    [built |-> TRUE, eventJSON |-> eventJSON, err |-> FALSE, reads |-> reads]
ReadError == [built |-> FALSE, eventJSON |-> "", err |-> TRUE, reads |-> 1]

\* a construction that reads the file at EventPath before it looks at the
\* inline EventJSON
configureReadsFirst(c, file) ==
    IF c.EventPath # "" /\ ~file.readable THEN ReadError
    ELSE IF c.EventJSON # "" THEN Runner(c.EventJSON, 0)
    ELSE IF c.EventPath # "" THEN Runner(file.data, 1)
    ELSE IF DOMAIN c.Inputs # {} THEN Runner(MarshalEvent(c.Inputs), 0)
    ELSE Runner("{}", 0)

\* runnerImpl.configure
configure(c, file) ==
    IF c.EventJSON # "" THEN Runner(c.EventJSON, 0)
    ELSE IF c.EventPath # ""
         THEN IF file.readable THEN Runner(file.data, 1) ELSE ReadError
    ELSE IF DOMAIN c.Inputs # {} THEN Runner(MarshalEvent(c.Inputs), 0)
    ELSE Runner("{}", 0)

\* a GetToken that takes GITEA_TOKEN whenever the key is present
GetTokenKeyPresent(c) ==
    IF "GITEA_TOKEN" \in DOMAIN c.Secrets
    THEN c.Secrets["GITEA_TOKEN"]
    ELSE Lookup(c.Secrets, "GITHUB_TOKEN")

\* Config.GetToken
GetToken(c) ==
    LET tok == Lookup(c.Secrets, "GITHUB_TOKEN")
    IN  IF Lookup(c.Secrets, "GITEA_TOKEN") # ""
        THEN Lookup(c.Secrets, "GITEA_TOKEN")
        ELSE tok

\* strings.SplitN(s, ":", 2): s itself when it has no colon, else what is
\* before and what is after its first colon
Colons(s) == {i \in 1..Len(s) : SubSeq(s, i, i) = ":"}
SplitN2(s) ==
    IF Colons(s) = {} THEN <<s>>
    ELSE LET i == Min(Colons(s))
         IN  <<SubSeq(s, 1, i - 1), SubSeq(s, i + 1, Len(s))>>

IsNetworkModeHost(c)   == c.ContainerNetworkMode = "host"
IsNetworkModeNone(c)   == c.ContainerNetworkMode = "none"
IsNetworkModeBridge(c) == c.ContainerNetworkMode = "bridge"

\* a container mode that only compares the beginning of the string
IsNetworkModeContainerPrefix(c) ==
    /\ Len(c.ContainerNetworkMode) >= Len("container")
    /\ SubSeq(c.ContainerNetworkMode, 1, Len("container")) = "container"

IsNetworkModeContainer(c) ==
    LET parts == SplitN2(c.ContainerNetworkMode)
    IN  Len(parts) > 1 /\ parts[1] = "container"

IsNetworkUserDefined(c) ==
    /\ ~IsNetworkModeHost(c) /\ ~IsNetworkModeNone(c)
    /\ ~IsNetworkModeBridge(c) /\ ~IsNetworkModeContainer(c)

\* the names of the network mode predicates that hold of c
NetworkModes(c) ==
    {m \in {"host", "none", "bridge", "container", "user-defined"} :
        CASE m = "host"      -> IsNetworkModeHost(c)
          [] m = "none"      -> IsNetworkModeNone(c)
          [] m = "bridge"    -> IsNetworkModeBridge(c)
          [] m = "container" -> IsNetworkModeContainer(c)
          [] OTHER           -> IsNetworkUserDefined(c)}

(***************************************************************************)
(* Actions of the plan executor.                                           *)
(***************************************************************************)
InitSched ==
    /\ pc = "constructed"
    /\ stage = 0
    /\ ctxDone = FALSE
    /\ ncpu = [s \in 1..NumStages |-> 0]
    /\ probed = [s \in 1..NumStages |-> [err |-> FALSE, NCPU |-> 0]]
    /\ stageSt = [s \in 1..NumStages |-> "idle"]
    /\ matrixes = [r \in Runs |-> <<>>]
    /\ maxParallel = [r \in Runs |-> 0]
    /\ rcs = [r \in Runs |-> <<>>]
    /\ rcBuilt = [r \in Runs |-> 0]
    /\ execs = [r \in Runs |-> <<>>]
    /\ maxJobNameLen = 0
    /\ runSt = [r \in Runs |-> "none"]
    /\ runErr = [r \in Runs |-> Nil]
    /\ pt = [r \in Runs |-> <<>>]
    /\ result = [r \in Runs |-> ""]
    /\ stageErr = [s \in 1..NumStages |-> Nil]
    /\ pipeErr = Nil
    /\ ret = Nil
    /\ aggRan = FALSE

\* no plan is executed
SchedOff ==
    /\ plan = <<PlainJob, PlainJob, PlainJob>>
    /\ cfgMatrix = EmptyMap
    /\ InitSched

\* selectMatrixes is not called
SelectOff ==
    /\ selM = <<>>
    /\ selF = EmptyMap
    /\ selOut = <<>>
    /\ selAll = <<>>
    /\ selPc = "off"

\* no runner is constructed
ConfigOff ==
    /\ config = DefaultConfig
    /\ eventFile = NoFile
    /\ runner = NoRunner
    /\ cfgRcs = <<>>
    /\ token = <<>>
    /\ netMode = <<>>
    /\ cfgPc = "off"

\* no masks are followed
MasksOff ==
    /\ mkPoints = 0
    /\ rcMasks = <<>>
    /\ logMasks = <<>>
    /\ mkAdded = <<>>
    /\ mkPt = <<>>

\* no network is created
NetworkOff ==
    /\ netArgs = [name |-> "", inheritDriverOpts |-> <<>>]
    /\ docker = [bridge |-> EmptyMap, fails |-> "none", inspects |-> 0,
                 networks |-> {}]
    /\ createOpts = EmptyMap
    /\ netRet = "none"
    /\ netPc = "off"

AuxOff == ConfigOff /\ MasksOff /\ NetworkOff

Init ==
    /\ plan \in Plans
    /\ cfgMatrix \in Filters
    /\ InitSched
    /\ SelectOff
    /\ AuxOff

\* the executor NewPlanExecutor returned is invoked
PlanInvoke ==
    /\ pc = "constructed"
    /\ pc' = "dispatch"
    /\ stage' = 1
    /\ UNCHANGED <<plan, cfgMatrix, ctxDone, ncpu, probed, stageSt, matrixes,
                   maxParallel, rcs, rcBuilt, execs,
                   maxJobNameLen, runSt, runErr, pt, result,
                   stageErr, pipeErr, ret, aggRan>>
    /\ UNCHANGED selVars
    /\ UNCHANGED auxVars

\* the caller cancels the context while the stage sequence executes
Cancel ==
    /\ pc \in {"dispatch", "stage"}
    /\ ~ctxDone
    /\ ctxDone' = TRUE
    /\ UNCHANGED <<plan, cfgMatrix, pc, stage, ncpu, probed, stageSt, matrixes,
                   maxParallel, rcs, rcBuilt, execs,
                   maxJobNameLen, runSt, runErr, pt, result,
                   stageErr, pipeErr, ret, aggRan>>
    /\ UNCHANGED selVars
    /\ UNCHANGED auxVars

\* the pipeline invokes the executor of stage s: the matrixes, the
\* RunContexts and the executors of its Runs are built, the host is probed
\* and the Parallel over the Runs starts
StageInvoke(s) ==
    /\ pc = "dispatch"
    /\ stage = s
    /\ ~ctxDone
    /\ \E probe \in ProbeResults :
          /\ ncpu' = [ncpu EXCEPT ![s] = StageNCPU(probe)]
          /\ probed' = [probed EXCEPT ![s] = probe]
    /\ stageSt' = [stageSt EXCEPT ![s] = "running"]
    /\ matrixes' = [r \in Runs |->
                      IF r \in RunsOf(s) THEN StageMatrixes(r) ELSE matrixes[r]]
    /\ maxParallel' = [r \in Runs |->
                      IF r \in RunsOf(s)
                      THEN StageMaxParallel(r, Len(StageMatrixes(r)))
                      ELSE maxParallel[r]]
    /\ rcs' = [r \in Runs |->
                      IF r \in RunsOf(s) THEN StageRunContexts(r) ELSE rcs[r]]
    /\ rcBuilt' = [r \in Runs |->
                      IF r \in RunsOf(s) THEN StageBuilt(r) ELSE rcBuilt[r]]
    /\ execs' = [r \in Runs |->
                      IF r \in RunsOf(s) THEN StageExecutors(r) ELSE execs[r]]
    /\ maxJobNameLen' = StageNameLen(s, maxJobNameLen)
    /\ pt' = [r \in Runs |->
                      IF r \in RunsOf(s)
                      THEN [i \in 1..Len(StageMatrixes(r)) |-> "pending"]
                      ELSE pt[r]]
    /\ runSt' = [r \in Runs |->
                      IF r \in StagePipeline(s) THEN "queued" ELSE runSt[r]]
    /\ pc' = "stage"
    /\ UNCHANGED <<plan, cfgMatrix, stage, ctxDone, runErr, result, stageErr,
                   pipeErr, ret, aggRan>>
    /\ UNCHANGED selVars
    /\ UNCHANGED auxVars

\* the pipeline finds the context cancelled before it dispatches a stage
PipelineCancelled ==
    /\ pc = "dispatch"
    /\ ctxDone
    /\ pipeErr' = Canceled
    /\ pc' = "aggregate"
    /\ UNCHANGED <<plan, cfgMatrix, stage, ctxDone, ncpu, probed, stageSt, matrixes,
                   maxParallel, rcs, rcBuilt, execs,
                   maxJobNameLen, runSt, runErr, pt, result,
                   stageErr, ret, aggRan>>
    /\ UNCHANGED selVars
    /\ UNCHANGED auxVars

\* the stage's Parallel starts the Parallel executor of Run r
RunStart(r) ==
    /\ pc = "stage"
    /\ r \in StagePipeline(stage)
    /\ runSt[r] = "queued"
    /\ ~ctxDone
    /\ Cardinality(RunningRuns(stage)) < ParallelCap(ncpu[stage])
    /\ runSt' = [runSt EXCEPT ![r] = "running"]
    /\ UNCHANGED <<plan, cfgMatrix, pc, stage, ctxDone, ncpu, probed, stageSt,
                   matrixes, maxParallel, rcs, rcBuilt, execs,
                   maxJobNameLen, runErr, pt,
                   result, stageErr, pipeErr, ret, aggRan>>
    /\ UNCHANGED selVars
    /\ UNCHANGED auxVars

\* the Run's Parallel invokes the job executor of matrix point i, with the
\* context the stage executor was given
PointStart(r, i) ==
    /\ pc = "stage"
    /\ runSt[r] = "running"
    /\ i \in PendingPoints(r)
    /\ ~ctxDone
    /\ Cardinality(RunningPoints(r)) < ParallelCap(maxParallel[r])
    /\ pt' = [pt EXCEPT ![r][i] = "running"]
    /\ execs' = [execs EXCEPT ![r][i].calls = @ + 1]
    /\ UNCHANGED <<plan, cfgMatrix, pc, stage, ctxDone, ncpu, probed, stageSt,
                   matrixes, maxParallel, rcs, rcBuilt,
                   maxJobNameLen, runSt, runErr,
                   result, stageErr, pipeErr, ret, aggRan>>
    /\ UNCHANGED selVars
    /\ UNCHANGED auxVars

\* the job executor of matrix point i of Run r returns
PointFinish(r, i) ==
    /\ pc = "stage"
    /\ i \in RunningPoints(r)
    /\ \E outcome \in JobOutcomes(ctxDone) :
          /\ pt' = [pt EXCEPT ![r][i] = "done"]
          /\ result' = [result EXCEPT ![r] = JobResult(result[r], outcome)]
          /\ runErr' = [runErr EXCEPT ![r] =
                          ParallelCollect(runErr[r], JobReturn(r, outcome))]
    /\ UNCHANGED <<plan, cfgMatrix, pc, stage, ctxDone, ncpu, probed, stageSt,
                   matrixes, maxParallel, rcs, rcBuilt, execs,
                   maxJobNameLen, runSt,
                   stageErr, pipeErr, ret, aggRan>>
    /\ UNCHANGED selVars
    /\ UNCHANGED auxVars

\* the Run's Parallel returns: every point it started has returned, and no
\* point is left that it would still start
RunFinish(r) ==
    /\ pc = "stage"
    /\ runSt[r] = "running"
    /\ RunningPoints(r) = {}
    /\ PendingPoints(r) = {} \/ ctxDone
    /\ runErr' = [runErr EXCEPT ![r] = ParallelResult(runErr[r], ctxDone)]
    /\ stageErr' = [stageErr EXCEPT ![stage] =
                      ParallelCollect(stageErr[stage],
                                      ParallelResult(runErr[r], ctxDone))]
    /\ runSt' = [runSt EXCEPT ![r] = "returned"]
    /\ UNCHANGED <<plan, cfgMatrix, pc, stage, ctxDone, ncpu, probed, stageSt,
                   matrixes, maxParallel, rcs, rcBuilt, execs,
                   maxJobNameLen, pt, result,
                   pipeErr, ret, aggRan>>
    /\ UNCHANGED selVars
    /\ UNCHANGED auxVars

\* the stage's Parallel returns, the stage executor returns its result and
\* the pipeline goes on to the next stage or stops
StageFinish(s) ==
    /\ pc = "stage"
    /\ stage = s
    /\ StageWait(s)
    /\ stageSt' = [stageSt EXCEPT ![s] = "returned"]
    /\ LET err == StageReturn(ParallelResult(stageErr[s], ctxDone))
       IN  /\ stageErr' = [stageErr EXCEPT ![s] = err]
           /\ IF PipelineContinues(s, err)
              THEN /\ stage' = s + 1
                   /\ pc' = "dispatch"
                   /\ pipeErr' = pipeErr
              ELSE /\ stage' = stage
                   /\ pc' = "aggregate"
                   /\ pipeErr' = err
    /\ UNCHANGED <<plan, cfgMatrix, ctxDone, ncpu, probed, matrixes,
                   maxParallel, rcs, rcBuilt, execs,
                   maxJobNameLen, runSt, runErr, pt, result,
                   ret, aggRan>>
    /\ UNCHANGED selVars
    /\ UNCHANGED auxVars

\* .Then(handleFailure(plan)): the aggregator runs and the plan executor
\* returns
Aggregate ==
    /\ pc = "aggregate"
    /\ aggRan' = TRUE
    /\ ret' = Then(pipeErr, handleFailure)
    /\ pc' = "done"
    /\ UNCHANGED <<plan, cfgMatrix, stage, ctxDone, ncpu, probed, stageSt, matrixes,
                   maxParallel, rcs, rcBuilt, execs,
                   maxJobNameLen, runSt, runErr, pt, result,
                   stageErr, pipeErr>>
    /\ UNCHANGED selVars
    /\ UNCHANGED auxVars

Next ==
    \/ PlanInvoke
    \/ Cancel
    \/ \E s \in 1..NumStages : StageInvoke(s)
    \/ PipelineCancelled
    \/ \E r \in Runs : RunStart(r)
    \/ \E r \in Runs : \E i \in 1..MaxPoints + 1 : PointStart(r, i)
    \/ \E r \in Runs : \E i \in 1..MaxPoints + 1 : PointFinish(r, i)
    \/ \E r \in Runs : RunFinish(r)
    \/ \E s \in 1..NumStages : StageFinish(s)
    \/ Aggregate

Spec == Init /\ [][Next]_vars

(***************************************************************************)
(* selectMatrixes on its own: every matrix of at most MaxSelLen points     *)
(* over the dimensions "os" and "ver", under every filter of SelFilters.    *)
(***************************************************************************)
SelDims == {"os", "ver"}

SelValues(d) ==
    IF d = "os" THEN {StrVal("a"), StrVal("b")}
    ELSE {IntVal(1), BoolVal(TRUE)}

SelPoints ==
    UNION {{p \in [D -> UNION {SelValues(d) : d \in SelDims}] :
              \A d \in D : p[d] \in SelValues(d)} : D \in SUBSET SelDims}

SelMatrixes == UNION {[1..n -> SelPoints] : n \in 0..MaxSelLen}

\* allowed sets: the keys are the allowed strings; only "a" stores true
SelAllowed ==
    {[v \in S |-> v = "a"] : S \in {{}, {"a"}, {"1"}, {"a", "true"}}}

SelFilters == UNION {[D -> SelAllowed] : D \in SUBSET SelDims}

InitSelect ==
    /\ SchedOff
    /\ AuxOff
    /\ selM \in SelMatrixes
    /\ selF \in SelFilters
    /\ selOut = <<>>
    /\ selAll = <<>>
    /\ selPc = "input"

\* selectMatrixes(selM, selF)
SelectCall ==
    /\ selPc = "input"
    /\ selOut' = selectMatrixes(selM, selF)
    /\ selPc' = "filtered"
    /\ UNCHANGED <<selM, selF, selAll>>
    /\ UNCHANGED schedVars
    /\ UNCHANGED auxVars

\* selectMatrixes(selM, the empty filter)
SelectUnfiltered ==
    /\ selPc = "filtered"
    /\ selAll' = selectMatrixes(selM, EmptyMap)
    /\ selPc' = "done"
    /\ UNCHANGED <<selM, selF, selOut>>
    /\ UNCHANGED schedVars
    /\ UNCHANGED auxVars

NextSelect == SelectCall \/ SelectUnfiltered

SpecSelect == InitSelect /\ [][NextSelect]_vars

(***************************************************************************)
(* SpecMatrix: the plan executor on the plans whose first Run has a        *)
(* strategy and a matrix of every size, next to Runs without matrix, under *)
(* every filter.                                                           *)
(***************************************************************************)
MatrixPlans == {<<j1, PlainJob, PlainJob>> : j1 \in MatrixJobs}

InitMatrix ==
    /\ plan \in MatrixPlans
    /\ cfgMatrix \in Filters
    /\ InitSched
    /\ SelectOff
    /\ AuxOff

SpecMatrix == InitMatrix /\ [][Next]_vars

(***************************************************************************)
(* SpecConfig: a runner is constructed from a Config, RunContexts are      *)
(* built for it, and the Config's token and network mode are asked for.    *)
(* After the construction the file and the Config may be written to.       *)
(***************************************************************************)
InitConfig ==
    /\ SchedOff
    /\ SelectOff
    /\ MasksOff
    /\ NetworkOff
    /\ config \in Configs
    /\ eventFile \in EventFiles
    /\ runner = NoRunner
    /\ cfgRcs = <<>>
    /\ token = <<>>
    /\ netMode = <<>>
    /\ cfgPc = "input"

\* New(config)
New ==
    /\ cfgPc = "input"
    /\ runner' = configure(config, eventFile)
    /\ cfgPc' = "configured"
    /\ UNCHANGED <<config, eventFile, cfgRcs, token, netMode>>
    /\ UNCHANGED <<schedVars, selVars, maskVars, netVars>>

\* runner.newRunContext: the RunContext gets the runner's eventJSON
NewRunContextCall ==
    /\ cfgPc = "configured"
    /\ runner.built
    /\ Len(cfgRcs) < MaxRcs
    /\ cfgRcs' = Append(cfgRcs, [EventJSON |-> runner.eventJSON])
    /\ UNCHANGED <<config, eventFile, runner, token, netMode, cfgPc>>
    /\ UNCHANGED <<schedVars, selVars, maskVars, netVars>>

\* the file at EventPath is rewritten or removed after the construction
EventFileWrite ==
    /\ cfgPc = "configured"
    /\ eventFile' \in EventFiles \ {eventFile}
    /\ UNCHANGED <<config, runner, cfgRcs, token, netMode, cfgPc>>
    /\ UNCHANGED <<schedVars, selVars, maskVars, netVars>>

\* the caller assigns config.EventJSON after the construction
ConfigWrite ==
    /\ cfgPc = "configured"
    /\ \E e \in EventJSONs \ {config.EventJSON} :
          config' = [config EXCEPT !.EventJSON = e]
    /\ UNCHANGED <<eventFile, runner, cfgRcs, token, netMode, cfgPc>>
    /\ UNCHANGED <<schedVars, selVars, maskVars, netVars>>

\* config.GetToken()
GetTokenCall ==
    /\ cfgPc \in {"input", "configured"}
    /\ token = <<>>
    /\ token' = <<GetToken(config)>>
    /\ UNCHANGED <<config, eventFile, runner, cfgRcs, netMode, cfgPc>>
    /\ UNCHANGED <<schedVars, selVars, maskVars, netVars>>

\* the five network mode predicates of config
NetworkModeCall ==
    /\ cfgPc \in {"input", "configured"}
    /\ netMode = <<>>
    /\ netMode' = <<NetworkModes(config)>>
    /\ UNCHANGED <<config, eventFile, runner, cfgRcs, token, cfgPc>>
    /\ UNCHANGED <<schedVars, selVars, maskVars, netVars>>

NextConfig ==
    \/ New
    \/ NewRunContextCall
    \/ EventFileWrite
    \/ ConfigWrite
    \/ GetTokenCall
    \/ NetworkModeCall

SpecConfig == InitConfig /\ [][NextConfig]_vars

(***************************************************************************)
(* SpecMasks: the masks of the job loggers of one Run.  The stage has      *)
(* built one RunContext per matrix point, each with a Masks of its own     *)
(* (newRunContext sets none), and the executor of a point gives the        *)
(* address of its RunContext's Masks to the job logger.  A running job     *)
(* adds strings to the Masks of its RunContext (specification 3 and 5).    *)
(***************************************************************************)
MaskStrings == {"s1", "s2"}

\* a stage whose executors all hand over the Masks of the first RunContext
\* of the Run
LoggerMasksOfRun(i) == 1

\* &rc.Masks in the executor of matrix point i: rc is the RunContext of the
\* same iteration
LoggerMasks(i) == i

InitMasks ==
    /\ SchedOff
    /\ SelectOff
    /\ ConfigOff
    /\ NetworkOff
    /\ mkPoints \in 1..MaxMaskPoints
    /\ rcMasks = [i \in 1..mkPoints |-> {}]
    /\ logMasks = [i \in 1..mkPoints |-> 0]
    /\ mkAdded = [i \in 1..mkPoints |-> {}]
    /\ mkPt = [i \in 1..mkPoints |-> "pending"]

\* the executor of matrix point i is invoked: the job logger is set up with
\* the address of the Masks
MaskPointStart(i) ==
    /\ mkPt[i] = "pending"
    /\ mkPt' = [mkPt EXCEPT ![i] = "running"]
    /\ logMasks' = [logMasks EXCEPT ![i] = LoggerMasks(i)]
    /\ UNCHANGED <<mkPoints, rcMasks, mkAdded>>
    /\ UNCHANGED <<schedVars, selVars, cfgVars, netVars>>

\* the running job of matrix point i masks the string s: it is added to the
\* Masks of the point's RunContext
AddMask(i, s) ==
    /\ mkPt[i] = "running"
    /\ s \notin mkAdded[i]
    /\ rcMasks' = [rcMasks EXCEPT ![i] = @ \cup {s}]
    /\ mkAdded' = [mkAdded EXCEPT ![i] = @ \cup {s}]
    /\ UNCHANGED <<mkPoints, logMasks, mkPt>>
    /\ UNCHANGED <<schedVars, selVars, cfgVars, netVars>>

\* the job executor of matrix point i returns
MaskPointFinish(i) ==
    /\ mkPt[i] = "running"
    /\ mkPt' = [mkPt EXCEPT ![i] = "done"]
    /\ UNCHANGED <<mkPoints, rcMasks, logMasks, mkAdded>>
    /\ UNCHANGED <<schedVars, selVars, cfgVars, netVars>>

NextMasks ==
    \/ \E i \in 1..mkPoints : MaskPointStart(i)
    \/ \E i \in 1..mkPoints : \E s \in MaskStrings : AddMask(i, s)
    \/ \E i \in 1..mkPoints : MaskPointFinish(i)

SpecMasks == InitMasks /\ [][NextMasks]_vars

(***************************************************************************)
(* SpecNetwork: the executor of NewDockerNetworkCreateExecutor.  The       *)
(* docker client is the external engine interface (specification 6): each  *)
(* of its calls succeeds or fails; docker.fails names the call that fails. *)
(***************************************************************************)
OptKeys   == {"mtu", "icc"}
OptValues == {"1500", "9000"}

\* the driver options of the default bridge network
BridgeOptions ==
    UNION {[K -> OptValues] : K \in SUBSET OptKeys} \cup
    {[k \in {"mtu", "name"} |-> IF k = "mtu" THEN "1500" ELSE "docker0"]}

\* inheritDriverOpts: the lists of at most n keys
RECURSIVE InheritLists(_)
InheritLists(n) ==
    IF n = 0 THEN {<<>>}
    ELSE LET shorter == InheritLists(n - 1)
         IN  shorter \cup {Append(l, k) : l \in shorter, k \in OptKeys}

\* m[k] = v of a Go map
MapPut(m, k, v) == [x \in DOMAIN m \cup {k} |-> IF x = k THEN v ELSE m[x]]

\* a loop that copies the value of every requested key, present or not
RECURSIVE InheritLoopUnchecked(_, _, _)
InheritLoopUnchecked(opts, inherit, bridge) ==
    IF inherit = <<>> THEN opts
    ELSE InheritLoopUnchecked(
             MapPut(opts, Head(inherit), Lookup(bridge, Head(inherit))),
             Tail(inherit), bridge)

\* the loop over inheritDriverOpts: a key the default bridge has is copied
\* with its value
RECURSIVE InheritLoop(_, _, _)
InheritLoop(opts, inherit, bridge) ==
    IF inherit = <<>> THEN opts
    ELSE InheritLoop(
             IF Head(inherit) \in DOMAIN bridge
             THEN MapPut(opts, Head(inherit), bridge[Head(inherit)])
             ELSE opts,
             Tail(inherit), bridge)

\* types.NetworkCreate{Driver: "bridge", Scope: "local"} with its Options
NetworkCreate(name, opts) ==
    [name |-> name, Driver |-> "bridge", Scope |-> "local", Options |-> opts]

InitNetwork ==
    /\ SchedOff
    /\ SelectOff
    /\ ConfigOff
    /\ MasksOff
    /\ netArgs \in [name : {"act-net"},
                    inheritDriverOpts : InheritLists(MaxInherit)]
    /\ docker \in [bridge : BridgeOptions,
                   fails : {"none", "client", "inspect", "create"},
                   inspects : {0}, networks : {{}}]
    /\ createOpts = EmptyMap
    /\ netRet = "none"
    /\ netPc = "invoked"

\* cli, err := GetDockerClient(ctx)
NetGetClient ==
    /\ netPc = "invoked"
    /\ IF docker.fails = "client"
       THEN netRet' = "client" /\ netPc' = "done"
       ELSE netRet' = netRet /\ netPc' = "client"
    /\ UNCHANGED <<netArgs, docker, createOpts>>
    /\ UNCHANGED <<schedVars, selVars, cfgVars, maskVars>>

\* len(inheritDriverOpts) > 0: the default bridge is inspected and the
\* requested options it has are copied
NetInherit ==
    /\ netPc = "client"
    /\ Len(netArgs.inheritDriverOpts) > 0
    /\ docker' = [docker EXCEPT !.inspects = @ + 1]
    /\ IF docker.fails = "inspect"
       THEN /\ netRet' = "inspect" /\ netPc' = "done"
            /\ createOpts' = createOpts
       ELSE /\ createOpts' = InheritLoop(EmptyMap, netArgs.inheritDriverOpts,
                                         docker.bridge)
            /\ netRet' = netRet /\ netPc' = "create"
    /\ UNCHANGED netArgs
    /\ UNCHANGED <<schedVars, selVars, cfgVars, maskVars>>

\* len(inheritDriverOpts) = 0: no inspection, no options
NetNoInherit ==
    /\ netPc = "client"
    /\ Len(netArgs.inheritDriverOpts) = 0
    /\ netPc' = "create"
    /\ UNCHANGED <<netArgs, docker, createOpts, netRet>>
    /\ UNCHANGED <<schedVars, selVars, cfgVars, maskVars>>

\* cli.NetworkCreate(ctx, name, createOpts)
NetCreate ==
    /\ netPc = "create"
    /\ IF docker.fails = "create"
       THEN netRet' = "create" /\ docker' = docker
       ELSE /\ netRet' = "nil"
            /\ docker' = [docker EXCEPT !.networks =
                             @ \cup {NetworkCreate(netArgs.name, createOpts)}]
    /\ netPc' = "done"
    /\ UNCHANGED <<netArgs, createOpts>>
    /\ UNCHANGED <<schedVars, selVars, cfgVars, maskVars>>

NextNetwork == NetGetClient \/ NetInherit \/ NetNoInherit \/ NetCreate

SpecNetwork == InitNetwork /\ [][NextNetwork]_vars

(***************************************************************************)
(* Properties of the plan executor.                                        *)
(***************************************************************************)
Started(r)   == \E i \in DOMAIN pt[r] : pt[r][i] # "pending"
AllDone(r)   == \A i \in DOMAIN pt[r] : pt[r][i] = "done"
LaterStarted(s) == \E r \in Runs : StageOf(r) > s /\ Started(r)

\* C1 (state part): when a job executor of a later stage has been invoked,
\* every matrix point of every Run of stage s has returned.
C1_EarlierReturned ==
    \A s \in 1..NumStages :
        LaterStarted(s) =>
            \A r \in RunsOf(s) :
                /\ runSt[r] = "returned"
                /\ Len(pt[r]) = Len(matrixes[r])
                /\ AllDone(r)

\* C1 (step part): once a job executor of a later stage has been invoked,
\* no step changes the Result of a Run of stage s.
C1_ResultFinal ==
    \A s \in 1..NumStages :
        LaterStarted(s) => \A r \in RunsOf(s) : result'[r] = result[r]

\* C1: no job executor of stage k+1 is invoked before every job executor
\* (every matrix point of every Run) of stage k has returned, and the Result
\* of every Run of stage k is final from then on.
C1_StageOrdering == [](C1_EarlierReturned) /\ [][C1_ResultFinal]_vars

\* a job of stage 2 executes after a stage 1 whose first Run had several
\* matrix points and whose Runs both left a Result
C1_Witness ==
    /\ \E i \in DOMAIN pt[3] : pt[3][i] = "running"
    /\ Len(pt[1]) >= 2
    /\ result[1] = "success"
    /\ result[2] \in {"success", "skipped"}

\* the cap the specification gives a Run: min(MaxParallel or 4, |matrix|)
C2_MaxParallelOr4(r) ==
    IF plan[r].Strategy.present /\ plan[r].Strategy.MaxParallel # 0
    THEN plan[r].Strategy.MaxParallel
    ELSE 4

C2_MinOf(a, b) == IF a < b THEN a ELSE b

\* C2 as stated: while matrix points of a Run execute, their number is at
\* most min(MaxParallel or 4, |matrix|), for every MaxParallel.
C2_CapAsStated ==
    \A r \in Runs :
        RunningPoints(r) # {} =>
            Cardinality(RunningPoints(r))
                <= C2_MinOf(C2_MaxParallelOr4(r), Len(matrixes[r]))

\* C2 (amended): the matrix points of a Run executing at once are at most
\* min(MaxParallel, |matrix|), MaxParallel being 4 for a job without
\* strategy, and at most one when that minimum is below one.
C2_CapAmended ==
    \A r \in Runs :
        LET mp  == IF plan[r].Strategy.present
                   THEN plan[r].Strategy.MaxParallel ELSE 4
            cap == C2_MinOf(mp, Len(matrixes[r]))
        IN  Cardinality(RunningPoints(r)) <= (IF cap < 1 THEN 1 ELSE cap)

\* a Run of three kept points with MaxParallel 2 has two executing and the
\* third waiting
C2_Witness ==
    \E r \in Runs :
        /\ plan[r].Strategy.present
        /\ plan[r].Strategy.MaxParallel = 2
        /\ Len(matrixes[r]) = 3
        /\ Cardinality(RunningPoints(r)) = 2
        /\ Cardinality(PendingPoints(r)) = 1

\* the host cap of stage s: the NCPU the probe reported, one when it failed
C3_HostCap(s) == IF probed[s].err THEN 1 ELSE probed[s].NCPU

\* C3: the Runs of a stage executing at once are at most the NCPU the probe
\* reported; when the probe failed they are at most one, the stage does not
\* fail because of it (unless the caller cancels, every Run of the stage has
\* returned with all its matrix points run when the stage returns, and the
\* stage fails only if a job failed), and the matrix points of a Run still
\* execute up to the Run's own cap.
C3_HostCapHolds ==
    \A s \in 1..NumStages :
        /\ stageSt[s] = "running" =>
              Cardinality(RunningRuns(s)) <= C3_HostCap(s)
        /\ (stageSt[s] = "returned" /\ probed[s].err /\ ~ctxDone) =>
              /\ \A r \in RunsOf(s) : runSt[r] = "returned" /\ AllDone(r)
              /\ stageErr[s] # Nil => \E r \in RunsOf(s) : result[r] = "failure"
        /\ (stageSt[s] # "idle" /\ probed[s].err) =>
              \A r \in RunsOf(s) :
                  maxParallel[r] =
                      C2_MinOf(IF plan[r].Strategy.present
                               THEN plan[r].Strategy.MaxParallel ELSE 4,
                               Len(matrixes[r]))

\* the probe failed in stage 1: one Run executes two matrix points at once
\* while the other Run waits its turn
C3_Witness ==
    /\ stageSt[1] = "running"
    /\ probed[1].err
    /\ runSt[1] = "running"
    /\ runSt[2] = "queued"
    /\ Cardinality(RunningPoints(1)) = 2

SomeFailed == \E r \in Runs : result[r] = "failure"

\* C4 as stated: the plan executor returns a failure if and only if some Run
\* has Result "failure" at the end.
C4_FailureIffAsStated ==
    pc = "done" => (ret # Nil <=> SomeFailed)

\* C4 (amended): the plan executor returns a failure if and only if some Run
\* has Result "failure" at the end or the caller's context was cancelled
\* during the execution; it never returns success while a Run is marked
\* failure.
C4_FailureIffAmended ==
    pc = "done" =>
        /\ ret # Nil <=> (SomeFailed \/ ctxDone)
        /\ SomeFailed => ret # Nil

\* the plan ends, not cancelled, with the failure of its second Run while
\* the first Run succeeded
C4_Witness ==
    /\ pc = "done"
    /\ ~ctxDone
    /\ result[1] = "success"
    /\ result[2] = "failure"
    /\ ret = Failed(2)

\* C5: once stage s has returned with a Run whose Result is "failure", no
\* later stage is invoked and no job executor of a later stage is built or
\* invoked, and the plan executor returns an error.
C5_FailureStopsPipeline ==
    \A s \in 1..NumStages :
        (stageSt[s] = "returned" /\ \E r \in RunsOf(s) : result[r] = "failure")
            => /\ \A s2 \in 1..NumStages : s2 > s => stageSt[s2] = "idle"
               /\ \A r2 \in Runs : StageOf(r2) > s => pt[r2] = <<>> /\ runSt[r2] = "none"
               /\ pc = "done" => ret # Nil

\* stage 1 returned with one Run failed and the other succeeded, the context
\* was not cancelled and the plan executor has returned
C5_Witness ==
    /\ pc = "done"
    /\ ~ctxDone
    /\ stageSt[1] = "returned"
    /\ result[1] = "success"
    /\ result[2] = "failure"
    /\ stageSt[2] = "idle"
    /\ ret # Nil

\* C6: a failure in Run R does not halt the other Runs of its stage: when
\* the stage executor has returned (the caller not having cancelled the
\* context), every other Run of the stage has returned and every matrix
\* point the filter kept for it has been invoked and has returned.
C6_SiblingsComplete ==
    \A s \in 1..NumStages :
        (stageSt[s] = "returned" /\ ~ctxDone) =>
            \A R \in RunsOf(s) :
                result[R] = "failure" =>
                    \A r \in RunsOf(s) \ {R} :
                        /\ runSt[r] = "returned"
                        /\ Len(pt[r]) = Len(StageMatrixes(r))
                        /\ AllDone(r)

\* stage 1 returned after its first Run failed; the two matrix points of the
\* second Run both ran and the Run succeeded
C6_Witness ==
    /\ stageSt[1] = "returned"
    /\ ~ctxDone
    /\ result[1] = "failure"
    /\ Len(pt[2]) = 2
    /\ AllDone(2)
    /\ result[2] = "success"

\* C7: in a Run whose strategy has fail-fast, once a matrix point has failed
\* no matrix point of that Run that has not started is started.
C7_FailFastCancels ==
    [][\A r \in Runs :
          (plan[r].Strategy.FailFast /\ result[r] = "failure") =>
              \A i \in DOMAIN pt[r] :
                  pt[r][i] = "pending" => pt'[r][i] = "pending"]_vars

\* the first Run, in plan order, whose Result is "failure"
C8_FirstFailed(r) ==
    /\ result[r] = "failure"
    /\ \A i, j \in 1..Len(PlanOrder) :
          (PlanOrder[j] = r /\ i < j) => result[PlanOrder[i]] # "failure"

\* C8: when the context was cancelled during the execution, the aggregator
\* has run when the plan executor returns; the plan executor returns the
\* failure of the first failed Run in plan order if there is one, else the
\* cancellation, and never success.
C8_CancelledReturn ==
    (pc = "done" /\ ctxDone) =>
        /\ aggRan
        /\ ret # Nil
        /\ \A r \in Runs : C8_FirstFailed(r) => ret = Failed(r)
        /\ ~SomeFailed => ret = Canceled

\* the context was cancelled, both Runs of stage 1 failed and the plan
\* executor returned the failure of the first
C8_Witness ==
    /\ pc = "done"
    /\ ctxDone
    /\ result[1] = "failure"
    /\ result[2] = "failure"
    /\ ret = Failed(1)

(***************************************************************************)
(* Properties of selectMatrixes.                                           *)
(***************************************************************************)
\* the number of points of seq equal to p
Count(seq, p) == Cardinality({i \in DOMAIN seq : seq[i] = p})

\* the value of dimension d of point p as the filter reads it: a dimension
\* the point does not have formats as "<nil>"
C9_Formatted(p, d) == IF d \in DOMAIN p THEN FormatV(p[d]) ELSE "<nil>"

\* C9 as stated: a point is kept if and only if, for every dimension of the
\* filter, the point's formatted value for that dimension is in the allowed
\* set of the dimension.
C9_KeptIffAsStated ==
    selPc # "input" =>
        \A i \in DOMAIN selM :
            Count(selOut, selM[i]) > 0
                <=> \A d \in DOMAIN selF :
                        C9_Formatted(selM[i], d) \in DOMAIN selF[d]

\* C9 (amended): a point is kept if and only if, for every dimension that
\* both the filter and the point have, the point's formatted value is a key
\* of the allowed set of the dimension, whatever boolean the key stores;
\* dimensions only the filter or only the point has drop nothing.
C9_KeptIffAmended ==
    selPc # "input" =>
        \A i \in DOMAIN selM :
            Count(selOut, selM[i]) > 0
                <=> \A d \in DOMAIN selF \cap DOMAIN selM[i] :
                        C9_Formatted(selM[i], d) \in DOMAIN selF[d]

\* a kept point whose "ver" value 1 is allowed by an entry storing false and
\* which has no "os", a dimension the filter names; a point with "os" is
\* dropped
C9_Witness ==
    /\ selPc = "done"
    /\ Len(selM) = 2
    /\ DOMAIN selF = {"os", "ver"}
    /\ DOMAIN selM[1] = {"ver"}
    /\ selM[1]["ver"] = IntVal(1)
    /\ "1" \in DOMAIN selF["ver"]
    /\ ~selF["ver"]["1"]
    /\ "os" \in DOMAIN selM[2]
    /\ selOut = <<selM[1]>>

\* sub is a subsequence of seq: its points are points of seq at increasing
\* positions
IsSubsequence(sub, seq) ==
    \E f \in [DOMAIN sub -> DOMAIN seq] :
        /\ \A j \in DOMAIN sub : sub[j] = seq[f[j]]
        /\ \A j, k \in DOMAIN sub : j < k => f[j] < f[k]

\* C10: the points selectMatrixes(M, F) returns are a subsequence of
\* selectMatrixes(M, empty filter), and selectMatrixes(M, empty filter) is M.
C10_Monotone ==
    selPc = "done" =>
        /\ IsSubsequence(selOut, selAll)
        /\ selAll = selM

\* a matrix of three different points of which the filter drops the middle
\* one and keeps the other two in their order
C10_Witness ==
    /\ selPc = "done"
    /\ Len(selM) = 3
    /\ selM[1] # selM[3]
    /\ selOut = <<selM[1], selM[3]>>
    /\ selAll = selM

(***************************************************************************)
(* C11: a Run without matrix, and a Run whose matrix the filter empties.   *)
(***************************************************************************)
\* the job of Run r has no matrix: its expansion is the one point without
\* bindings
C11_NoMatrix(r) == ~GetMatrixes(plan[r]).err /\ GetMatrixes(plan[r]).m = <<EmptyMap>>

\* the job of Run r has a matrix with bindings and the user filter rejects
\* every point of it
C11_FilterRejectsAll(r) ==
    LET m == GetMatrixes(plan[r]).m
    IN  /\ ~GetMatrixes(plan[r]).err
        /\ m # <<>>
        /\ \A i \in DOMAIN m :
              \E d \in DOMAIN m[i] \cap DOMAIN cfgMatrix :
                  FormatV(m[i][d]) \notin DOMAIN cfgMatrix[d]

\* Run r has one RunContext and one executor, bound to no matrix value
C11_OnceUnbound(r) ==
    /\ matrixes[r] = <<EmptyMap>>
    /\ Len(rcs[r]) = 1 /\ rcs[r][1].Matrix = EmptyMap
    /\ Len(execs[r]) = 1 /\ execs[r][1].matrix = EmptyMap
    /\ Len(pt[r]) = 1

\* nothing of Run r exists: no RunContext, no executor, no Result
C11_YieldsNothing(r) ==
    /\ matrixes[r] = <<>> /\ rcs[r] = <<>> /\ execs[r] = <<>> /\ pt[r] = <<>>
    /\ result[r] = ""

\* C11 as stated: once the stage of a Run has been invoked, a Run without
\* matrix has its single unbound execution only when there is no user
\* filter, and for a Run whose matrix the filter empties no RunContext at
\* all has been built, no executor exists and the Result is unset.
C11_EmptyMatrixAsStated ==
    \A r \in Runs :
        stageSt[StageOf(r)] # "idle" =>
            /\ (C11_NoMatrix(r) /\ C11_OnceUnbound(r)) => cfgMatrix = EmptyMap
            /\ C11_FilterRejectsAll(r) => (C11_YieldsNothing(r) /\ rcBuilt[r] = 0)

\* C11 amended: once the stage of a Run has been invoked, a Run without
\* matrix has exactly one RunContext and one executor, bound to no matrix
\* value, whatever the user filter is, and the executor has run once when the
\* Run returned without cancellation; a Run whose matrix the filter empties
\* has no matrix point, no RunContext of a matrix point (only the one built
\* to evaluate its strategy), no executor, and its Result stays unset.
C11_EmptyMatrixAmended ==
    \A r \in Runs :
        stageSt[StageOf(r)] # "idle" =>
            /\ C11_NoMatrix(r) =>
                  /\ C11_OnceUnbound(r)
                  /\ execs[r][1].calls <= 1
                  /\ (runSt[r] = "returned" /\ ~ctxDone) =>
                        (execs[r][1].calls = 1 /\ pt[r][1] = "done")
            /\ C11_FilterRejectsAll(r) =>
                  /\ C11_YieldsNothing(r)
                  /\ rcBuilt[r] = StageStrategyRc(r)

\* under a filter that keeps nothing of the matrix of Run 1, the plan has
\* returned: Run 1 has no Result, and Run 2, without matrix, has run once
C11_Witness ==
    /\ pc = "done" /\ ~ctxDone
    /\ cfgMatrix # EmptyMap
    /\ C11_FilterRejectsAll(1) /\ Len(plan[1].Matrix) = MaxPoints
    /\ result[1] = "" /\ rcBuilt[1] = 1
    /\ C11_NoMatrix(2) /\ execs[2][1].calls = 1 /\ result[2] = "success"

(***************************************************************************)
(* C12: the names of the RunContexts of a Run.                             *)
(***************************************************************************)
\* the name of Run r before any suffix
C12_Base(r) == Interpolate(JobNames[r])

\* C12: in every state of every execution order, the RunContext of the i-th
\* kept matrix point of a Run is bound to that point, its JobName is the
\* unsuffixed name, and its Name is the unsuffixed name when the Run has a
\* single kept point and the name followed by "-i" (i counted from 1) when
\* it has more; the names of one Run are pairwise different.
C12_Suffix ==
    \A r \in Runs :
        /\ Len(rcs[r]) = Len(matrixes[r])
        /\ \A i \in DOMAIN rcs[r] :
              /\ rcs[r][i].Matrix = matrixes[r][i]
              /\ rcs[r][i].JobName = C12_Base(r)
              /\ rcs[r][i].Name =
                    IF Len(matrixes[r]) > 1
                    THEN C12_Base(r) \o "-" \o ToString(i)
                    ELSE C12_Base(r)
              /\ \A j \in DOMAIN rcs[r] :
                    j # i => rcs[r][j].Name # rcs[r][i].Name

\* the filter kept the first and the third of three points: they are named
\* -1 and -2, and the second of them has finished before the first started;
\* the Run of the next stage has a single point and no suffix
C12_Witness ==
    /\ Len(plan[1].Matrix) = 3 /\ Len(matrixes[1]) = 2
    /\ rcs[1][1].Name = "build-1" /\ rcs[1][1].Matrix = OsPoint("a")
    /\ rcs[1][2].Name = "build-2" /\ rcs[1][2].Matrix = OsPoint("c")
    /\ rcs[1][2].JobName = "build"
    /\ pt[1][2] = "done" /\ pt[1][1] = "pending"
    /\ Len(rcs[2]) = 1 /\ rcs[2][1].Name = "test"

(***************************************************************************)
(* C13: the event JSON of a runner.                                        *)
(***************************************************************************)
\* rn is what the precedence of C13 makes of Config c and file f
C13_Materialized(c, f, rn) ==
    /\ c.EventJSON # "" =>
          (rn.built /\ ~rn.err /\ rn.eventJSON = c.EventJSON /\ rn.reads = 0)
    /\ (c.EventJSON = "" /\ c.EventPath # "" /\ f.readable) =>
          (rn.built /\ ~rn.err /\ rn.eventJSON = f.data)
    /\ (c.EventJSON = "" /\ c.EventPath # "" /\ ~f.readable) =>
          (~rn.built /\ rn.err)
    /\ (c.EventJSON = "" /\ c.EventPath = "" /\ c.Inputs # EmptyMap) =>
          (rn.built /\ ~rn.err /\ rn.reads = 0
           /\ rn.eventJSON = "{\"inputs\":{"
                                \o MarshalEntries(c.Inputs, Len(InputKeys))
                                \o "}}")
    /\ (c.EventJSON = "" /\ c.EventPath = "" /\ c.Inputs = EmptyMap) =>
          (rn.built /\ ~rn.err /\ rn.reads = 0 /\ rn.eventJSON = "{}")

\* C13: the step that constructs the runner materializes the event JSON by
\* the precedence inline EventJSON, file at EventPath (an unreadable file
\* fails the construction, and the file is not read when EventJSON is
\* given), Inputs, "{}"; no later step changes what the construction
\* returned, whatever is written to the file or the Config; and every
\* RunContext built holds the runner's event JSON.
C13_EventJSON ==
    [][/\ (cfgPc = "input" /\ cfgPc' = "configured") =>
              C13_Materialized(config, eventFile, runner')
       /\ cfgPc = "configured" => runner' = runner
       /\ \A i \in DOMAIN cfgRcs' : cfgRcs'[i].EventJSON = runner'.eventJSON
      ]_vars

\* a runner constructed from the inline EventJSON although a file was named:
\* the file was not read and is unreadable, the Config's EventJSON has been
\* cleared since, and the RunContexts hold the inline value
C13_Witness ==
    /\ cfgPc = "configured"
    /\ runner.built /\ runner.reads = 0
    /\ runner.eventJSON = "{\"ref\":\"r\"}"
    /\ config.EventPath # "" /\ ~eventFile.readable
    /\ config.EventJSON = ""
    /\ Len(cfgRcs) = MaxRcs /\ cfgRcs[MaxRcs].EventJSON = "{\"ref\":\"r\"}"

(***************************************************************************)
(* C14: the token of a Config.                                             *)
(***************************************************************************)
\* C14: once GetToken has been called, what it returned is the value of
\* GITEA_TOKEN when that is non-empty, else the value of GITHUB_TOKEN, the
\* empty string when neither secret is set; so an empty or absent
\* GITEA_TOKEN leaves a non-empty GITHUB_TOKEN in place.
C14_Token ==
    token # <<>> =>
        LET gitea  == IF "GITEA_TOKEN" \in DOMAIN config.Secrets
                      THEN config.Secrets["GITEA_TOKEN"] ELSE ""
            github == IF "GITHUB_TOKEN" \in DOMAIN config.Secrets
                      THEN config.Secrets["GITHUB_TOKEN"] ELSE ""
        IN  /\ gitea # "" => token[1] = gitea
            /\ gitea = "" => token[1] = github
            /\ (gitea = "" /\ github = "") => token[1] = ""

\* GITEA_TOKEN is present and empty, and GetToken returned the GITHUB_TOKEN
C14_Witness ==
    /\ token = <<"t1">>
    /\ "GITEA_TOKEN" \in DOMAIN config.Secrets
    /\ config.Secrets["GITEA_TOKEN"] = ""
    /\ config.Secrets["GITHUB_TOKEN"] = "t1"

(***************************************************************************)
(* C15: the network mode of a Config.                                      *)
(***************************************************************************)
\* the one class C15 gives the mode string s; "container:<id>" is every
\* string that begins with "container:", whatever follows the colon
C15_Class(s) ==
    CASE s \in {"host", "none", "bridge"} -> s
      [] (Len(s) >= Len("container:")
          /\ SubSeq(s, 1, Len("container:")) = "container:") -> "container"
      [] OTHER -> "user-defined"

\* C15: once the five predicates have been evaluated for a Config, exactly
\* one of them holds, and it is the class of the mode string: "host", "none"
\* and "bridge" are their own class, a string beginning with "container:" is
\* a container mode, and any other string, the empty string and "container"
\* without a colon among them, is user-defined.
C15_OneMode ==
    netMode # <<>> =>
        /\ Cardinality(netMode[1]) = 1
        /\ netMode[1] = {C15_Class(config.ContainerNetworkMode)}

\* the predicates have been evaluated for "container:id" and the only one
\* that holds is the container mode
C15_Witness ==
    /\ netMode = <<{"container"}>>
    /\ config.ContainerNetworkMode = "container:id"

(***************************************************************************)
(* C16: the padding width of the job log prefixes.                         *)
(***************************************************************************)
\* the longest formatted name of the RunContexts of all stages of the plan
C16_PlanWidth ==
    Max({0} \cup
        UNION {{Len(RcString(StageRunContexts(r)[i])) :
                   i \in DOMAIN StageRunContexts(r)} : r \in Runs})

\* C16: whenever a job executor is running, the padding width it formats its
\* log prefix with is the longest formatted name of the RunContexts of every
\* stage of the plan.
C16_SameWidth ==
    \A r \in Runs :
        RunningPoints(r) # {} => maxJobNameLen = C16_PlanWidth

(***************************************************************************)
(* C17: a strategy whose MaxParallel is zero or negative.                  *)
(***************************************************************************)
\* Run r has a strategy with MaxParallel <= 0 and at least one matrix point
C17_NonPositive(r) ==
    /\ plan[r].Strategy.present
    /\ plan[r].Strategy.MaxParallel <= 0
    /\ Len(matrixes[r]) >= 1

\* C17: of a Run whose strategy has MaxParallel <= 0 and that has at least
\* one matrix point, at most one job executor is running at any time, and
\* when the Run has returned without cancellation every one of its matrix
\* points has been executed, once.
C17_CapOne ==
    \A r \in Runs :
        C17_NonPositive(r) =>
            /\ Cardinality(RunningPoints(r)) <= 1
            /\ (runSt[r] = "returned" /\ ~ctxDone) =>
                  \A i \in DOMAIN matrixes[r] :
                      pt[r][i] = "done" /\ execs[r][i].calls = 1

\* a Run with MaxParallel -1 and three matrix points: one has finished, one
\* is running and one waits
C17_Witness ==
    /\ plan[1].Strategy.MaxParallel = -1
    /\ C17_NonPositive(1)
    /\ Len(matrixes[1]) = 3
    /\ \E i, j, k \in 1..3 :
          pt[1][i] = "done" /\ pt[1][j] = "running" /\ pt[1][k] = "pending"

(***************************************************************************)
(* C18: the masks of the job loggers of one Run.                           *)
(***************************************************************************)
\* the masks the job logger of matrix point i redacts with
C18_Redacted(i) == rcMasks[logMasks[i]]

\* the matrix points whose job logger has been set up
C18_Logging == {i \in 1..mkPoints : logMasks[i] # 0}

C19_Kept(r) ==
    IF GetMatrixes(plan[r]).err THEN <<>>
    ELSE selectMatrixes(GetMatrixes(plan[r]).m, cfgMatrix)

\* nothing has been built or invoked for Run r
C19_Nothing(r) ==
    rcs[r] = <<>> /\ execs[r] = <<>> /\ rcBuilt[r] = 0 /\ pt[r] = <<>>

\* C19: while the plan executor is only constructed nothing is built or
\* invoked for any Run.  Once the stage of a Run has been invoked, the Run
\* has one RunContext and one executor per kept matrix point, in the order
\* of the points; the i-th executor holds the i-th RunContext and the i-th
\* kept point and is never invoked twice; and when the stage has returned
\* and the context was not cancelled, every one of them has been invoked
\* exactly once.
C19_OncePerPoint ==
    /\ pc = "constructed" => \A r \in Runs : C19_Nothing(r)
    /\ \A r \in Runs :
          stageSt[StageOf(r)] # "idle" =>
              LET kept == C19_Kept(r)
              IN  /\ Len(rcs[r]) = Len(kept)
                  /\ Len(execs[r]) = Len(kept)
                  /\ rcBuilt[r] = StageStrategyRc(r) + Len(kept)
                  /\ \A i \in DOMAIN execs[r] :
                        /\ rcs[r][i].Run = r
                        /\ rcs[r][i].Matrix = kept[i]
                        /\ execs[r][i].rc = i
                        /\ execs[r][i].matrix = kept[i]
                        /\ execs[r][i].calls =
                              IF pt[r][i] = "pending" THEN 0 ELSE 1
                        /\ (stageSt[StageOf(r)] = "returned" /\ ~ctxDone) =>
                              (execs[r][i].calls = 1 /\ pt[r][i] = "done")

\* the plan has returned without cancellation and without failure; the
\* filter kept two of the three points of Run 1, and each executor of every
\* Run has been invoked once
C19_Witness ==
    /\ pc = "done" /\ ~ctxDone /\ ret = Nil
    /\ Len(plan[1].Matrix) = 3 /\ Len(execs[1]) = 2
    /\ \A r \in Runs :
          /\ execs[r] # <<>>
          /\ \A i \in DOMAIN execs[r] : execs[r][i].calls = 1

(***************************************************************************)
(* C20: the network create executor.                                       *)
(***************************************************************************)
\* the keys asked to be inherited
C20_Requested == {netArgs.inheritDriverOpts[i] : i \in DOMAIN netArgs.inheritDriverOpts}

\* C20: every network the executor created is a local bridge network of the
\* given name whose driver options are exactly the requested keys the
\* default bridge has, each with the default bridge's value; the default
\* bridge is inspected only when the inherit list is non-empty; and when
\* obtaining the client fails, or inspecting the default bridge fails, the
\* executor returns that error and no network is created.
C20_NetworkCreate ==
    /\ \A n \in docker.networks :
          /\ n.name = netArgs.name /\ n.Driver = "bridge" /\ n.Scope = "local"
          /\ DOMAIN n.Options = C20_Requested \cap DOMAIN docker.bridge
          /\ \A k \in DOMAIN n.Options : n.Options[k] = docker.bridge[k]
    /\ docker.inspects > 0 => netArgs.inheritDriverOpts # <<>>
    /\ netRet \in {"client", "inspect"} => docker.networks = {}
    /\ netPc = "done" =>
          /\ docker.fails = "client" => netRet = "client"
          /\ (docker.fails = "inspect" /\ netArgs.inheritDriverOpts # <<>>)
                => netRet = "inspect"
          /\ (docker.fails = "inspect" /\ netArgs.inheritDriverOpts = <<>>)
                => (netRet = "nil" /\ docker.inspects = 0)
          /\ netRet = "nil" => Cardinality(docker.networks) = 1

\* "mtu" and "icc" were requested and the default bridge has only "mtu" and
\* "name": the network created has the bridge's "mtu" and nothing else
C20_Witness ==
    /\ netPc = "done" /\ netRet = "nil"
    /\ netArgs.inheritDriverOpts = <<"mtu", "icc">>
    /\ DOMAIN docker.bridge = {"mtu", "name"}
    /\ docker.inspects = 1
    /\ docker.networks = {NetworkCreate("act-net", [k \in {"mtu"} |-> "1500"])}

====
